---------------------------- MODULE Spec2Model ----------------------------
(***************************************************************************)
(* Model of the scanimation base generator (src/main.py).                  *)
(*                                                                         *)
(* An image is a record [mode, width, height, px]; px maps <<x, y>>        *)
(* (0-based, as in Pillow) to a pixel: <<r, g, b, a>> for mode "RGBA",     *)
(* <<r, g, b>> for mode "RGB".  The Pillow calls main.py makes (Image.new, *)
(* crop, paste, paste with a mask, convert, resize) are operators on such  *)
(* records; main() is a state machine whose steps are its statements.      *)
(***************************************************************************)
EXTENDS Integers, Sequences, FiniteSets

VARIABLES
    pc,        \* position of main(): the statement that runs next
    args,      \* parse_args(): recursive, slice, direction, resize, out_mask,
               \* white_bg, force_rgb (--exts is left at its default)
    folder,    \* the input folder: [exists, entries]
    files,     \* main's `files` (collect_files' result)
    frames,    \* main's `frames` (load_frames', then unify_sizes' result)
    loaded,    \* the list load_frames returned, as it was before unify_sizes
    W,         \* main's W
    H,         \* main's H
    base,      \* main's `base`
    out_img,   \* main's `out_img`
    mask,      \* main's `mask`
    stripes,   \* the crop/paste calls of the last interlace_* call, in order
    locals,    \* effective slice sizes and period the two generators computed
    disk,      \* the output files that exist: a subset of {"base", "mask"}
    error      \* "none", or why the run ended early

vars == <<pc, args, folder, files, frames, loaded, W, H, base, out_img, mask,
          stripes, locals, disk, error>>

-----------------------------------------------------------------------------
(* Bounds of the checked instances.                                        *)

MaxAxis == 12     \* longest stripe axis (W for vertical, H for horizontal)
MaxOrth == 2      \* longest orthogonal axis
MaxSlice == 7     \* largest --slice tried by the encoder specification
MaxFrames == 3    \* most frames handed to the encoder
MaxSeed == 1      \* variants of frame content

SliceValues == (0 - 1)..MaxSlice

-----------------------------------------------------------------------------
(* Integer helpers: Python's max, min and range(lo, hi, step).             *)

Max(a, b) == IF a >= b THEN a ELSE b

Min(a, b) == IF a <= b THEN a ELSE b

Range(lo, hi, step) ==
    [i \in 1..((hi - lo + step - 1) \div step) |-> lo + (i - 1) * step]

-----------------------------------------------------------------------------
(* Pillow images.                                                          *)

NoImage == [mode |-> "none", width |-> 0, height |-> 0, px |-> <<>>]

Coords(w, h) == (0..(w - 1)) \X (0..(h - 1))

\* Image.new(mode, (w, h), color)
New(mode, w, h, color) ==
    [mode |-> mode, width |-> w, height |-> h,
     px |-> [p \in Coords(w, h) |-> color]]

\* im.crop((l, u, r, b)): the region, zero-filled where it leaves the image
Crop(im, box) ==
    LET w == box[3] - box[1]
        h == box[4] - box[2]
    IN  [mode |-> im.mode, width |-> w, height |-> h,
         px |-> [p \in Coords(w, h) |->
                   LET q == <<box[1] + p[1], box[2] + p[2]>>
                   IN  IF q \in DOMAIN im.px THEN im.px[q] ELSE <<0, 0, 0, 0>>]]

\* dst.paste(src, (x, y)) with no mask: src's pixels replace dst's, clipped to dst
Paste(dst, src, at) ==
    [dst EXCEPT !.px =
        [p \in DOMAIN dst.px |->
            LET q == <<p[1] - at[1], p[2] - at[2]>>
            IN  IF q \in DOMAIN src.px THEN src.px[q] ELSE dst.px[p]]]

-----------------------------------------------------------------------------
(* Interlacer.                                                             *)

\* Variant: the slice is not clamped to the axis (the min is missing)
interlace_slice_nomin(slice_px, axis) == Max(1, slice_px)

\* slice_w = max(1, min(slice_w, W))
interlace_slice(slice_px, axis) == Max(1, Min(slice_px, axis))

\* Variant: the frame is picked by column, not by stripe (the division is missing)
interlace_vertical_steps_bycolumn(N, w, h, slice_w) ==
    LET s == Max(1, Min(slice_w, w))
        xs == Range(0, w, s)
    IN  [i \in 1..Len(xs) |->
            LET x == xs[i]
                x2 == Min(x + s, w)
            IN  [f_idx |-> x % N, box |-> <<x, 0, x2, h>>, at |-> <<x, 0>>]]

\* The iterations of interlace_vertical's loop: source frame, crop box, paste place
interlace_vertical_steps(N, w, h, slice_w) ==
    LET s == interlace_slice(slice_w, w)
        xs == Range(0, w, s)
    IN  [i \in 1..Len(xs) |->
            LET x == xs[i]
                x2 == Min(x + s, w)
            IN  [f_idx |-> (x \div s) % N, box |-> <<x, 0, x2, h>>, at |-> <<x, 0>>]]

\* Variant: the last stripe is not truncated (y2 = y + slice_h)
interlace_horizontal_steps_noclip(N, w, h, slice_h) ==
    LET s == Max(1, Min(slice_h, h))
        ys == Range(0, h, s)
    IN  [i \in 1..Len(ys) |->
            LET y == ys[i]
                y2 == y + s
            IN  [f_idx |-> (y \div s) % N, box |-> <<0, y, w, y2>>, at |-> <<0, y>>]]

\* Variant: the frame cycle starts one frame late
interlace_horizontal_steps_late(N, w, h, slice_h) ==
    LET s == Max(1, Min(slice_h, h))
        ys == Range(0, h, s)
    IN  [i \in 1..Len(ys) |->
            LET y == ys[i]
                y2 == Min(y + s, h)
            IN  [f_idx |-> ((y \div s) + 1) % N, box |-> <<0, y, w, y2>>, at |-> <<0, y>>]]

\* The iterations of interlace_horizontal's loop
interlace_horizontal_steps(N, w, h, slice_h) ==
    LET s == interlace_slice(slice_h, h)
        ys == Range(0, h, s)
    IN  [i \in 1..Len(ys) |->
            LET y == ys[i]
                y2 == Min(y + s, h)
            IN  [f_idx |-> (y \div s) % N, box |-> <<0, y, w, y2>>, at |-> <<0, y>>]]

\* crop = frames[f_idx].crop(box); out.paste(crop, at), for each iteration in order
RECURSIVE CropPasteAll(_, _, _, _)
CropPasteAll(fs, steps, i, out) ==
    IF i > Len(steps) THEN out
    ELSE CropPasteAll(fs, steps, i + 1,
            Paste(out, Crop(fs[steps[i].f_idx + 1], steps[i].box), steps[i].at))

interlace_vertical(fs, w, h, slice_w) ==
    CropPasteAll(fs, interlace_vertical_steps(Len(fs), w, h, slice_w), 1,
                 New("RGBA", w, h, <<0, 0, 0, 0>>))

interlace_horizontal(fs, w, h, slice_h) ==
    CropPasteAll(fs, interlace_horizontal_steps(Len(fs), w, h, slice_h), 1,
                 New("RGBA", w, h, <<0, 0, 0, 0>>))

-----------------------------------------------------------------------------
(* Mask generator.                                                         *)

\* slice_px = max(1, slice_px)
mask_slice(slice_px) == Max(1, slice_px)

\* Variant: one stripe too many per period
mask_period_plus(slice_px, N) == Max(1, slice_px) * (N + 1)

\* period = slice_px * N
mask_period(slice_px, N) == mask_slice(slice_px) * N

\* mask.paste(slit, place) for each place in order
RECURSIVE PasteAll(_, _, _, _)
PasteAll(dst, src, places, i) ==
    IF i > Len(places) THEN dst
    ELSE PasteAll(Paste(dst, src, places[i]), src, places, i + 1)

\* Variant: the slits are cut at the end of each period instead of its start
make_mask_shifted(w, h, slice_px, N, direction) ==
    LET s == Max(1, slice_px)
        period == s * N
        opaque == New("RGBA", w, h, <<0, 0, 0, 255>>)
    IN  IF direction = "vertical"
        THEN LET slit == New("RGBA", s, h, <<0, 0, 0, 0>>)
                 xs == Range(period - s, w, period)
             IN  PasteAll(opaque, slit, [i \in 1..Len(xs) |-> <<xs[i], 0>>], 1)
        ELSE LET slit == New("RGBA", w, s, <<0, 0, 0, 0>>)
                 ys == Range(period - s, h, period)
             IN  PasteAll(opaque, slit, [i \in 1..Len(ys) |-> <<0, ys[i]>>], 1)

make_mask(w, h, slice_px, N, direction) ==
    LET s == mask_slice(slice_px)
        period == mask_period(slice_px, N)
        opaque == New("RGBA", w, h, <<0, 0, 0, 255>>)
    IN  IF direction = "vertical"
        THEN LET slit == New("RGBA", s, h, <<0, 0, 0, 0>>)
                 xs == Range(0, w, period)
             IN  PasteAll(opaque, slit, [i \in 1..Len(xs) |-> <<xs[i], 0>>], 1)
        ELSE LET slit == New("RGBA", w, s, <<0, 0, 0, 0>>)
                 ys == Range(0, h, period)
             IN  PasteAll(opaque, slit, [i \in 1..Len(ys) |-> <<0, ys[i]>>], 1)

-----------------------------------------------------------------------------
(* Compositor.                                                             *)

\* Pillow's DIV255: rounded division by 255 in integer arithmetic
Div255(a) == LET t == a + 128 IN ((t \div 256) + t) \div 256

\* Pillow's BLEND8: in1 seen through (255 - m), in2 through m
Blend8(m, in1, in2) == Div255(in1 * (255 - m) + in2 * m)

\* im.convert("RGB"): the alpha channel is dropped, RGB kept
ConvertRGB(im) ==
    IF im.mode = "RGB" THEN im
    ELSE [im EXCEPT !.mode = "RGB",
                    !.px = [p \in DOMAIN im.px |-> <<im.px[p][1], im.px[p][2], im.px[p][3]>>]]

\* im.convert("RGBA"): an image without alpha becomes fully opaque
ConvertRGBA(im) ==
    IF im.mode = "RGBA" THEN im
    ELSE [im EXCEPT !.mode = "RGBA",
                    !.px = [p \in DOMAIN im.px |-> <<im.px[p][1], im.px[p][2], im.px[p][3], 255>>]]

\* bg.paste(img, mask=img.split()[-1]) for an RGB bg and an RGBA img of one size
PasteAlpha(bg, img) ==
    [bg EXCEPT !.px =
        [p \in DOMAIN bg.px |->
            IF p \in DOMAIN img.px
            THEN LET a == img.px[p][4]
                 IN  <<Blend8(a, bg.px[p][1], img.px[p][1]),
                       Blend8(a, bg.px[p][2], img.px[p][2]),
                       Blend8(a, bg.px[p][3], img.px[p][3])>>
            ELSE bg.px[p]]]

\* Variant: the alpha channel is dropped instead of blended over white
composite_on_white_dropalpha(img) == ConvertRGB(img)

composite_on_white(img) ==
    IF img.mode # "RGBA" THEN ConvertRGB(img)
    ELSE PasteAlpha(New("RGB", img.width, img.height, <<255, 255, 255>>), img)

-----------------------------------------------------------------------------
(* Size unifier.                                                           *)

\* Whether every pixel of im is one opaque colour
IsFlatOpaque(im) ==
    /\ im.mode = "RGBA"
    /\ \A p, q \in DOMAIN im.px : im.px[p] = im.px[q]
    /\ \A p \in DOMAIN im.px : im.px[p][4] = 255

\* im.resize((w, h), Image.LANCZOS).  The result has exactly the size asked for.
\* Its pixels are modelled where the filter's result is known exactly: the
\* filter's weights are normalised, so an image of one opaque colour keeps that
\* colour.  Other contents are outside this model (no case applies).
Resize(im, w, h) ==
    CASE IsFlatOpaque(im) ->
        New(im.mode, w, h, im.px[CHOOSE p \in DOMAIN im.px : TRUE])

RECURSIVE SeqMin(_)
SeqMin(s) ==
    IF Len(s) = 1 THEN s[1] ELSE Min(s[1], SeqMin(Tail(s)))

\* Variant: "min" takes both sides from the one frame with the least width
unify_sizes_oneframe(imgs, mode) ==
    LET narrow == CHOOSE i \in 1..Len(imgs) :
                     \A j \in 1..Len(imgs) : imgs[i].width <= imgs[j].width
        w == IF mode = "first" THEN imgs[1].width ELSE imgs[narrow].width
        h == IF mode = "first" THEN imgs[1].height ELSE imgs[narrow].height
    IN  [out |-> [i \in 1..Len(imgs) |->
                    IF imgs[i].width # w \/ imgs[i].height # h
                    THEN Resize(imgs[i], w, h)
                    ELSE imgs[i]],
         W |-> w, H |-> h]

unify_sizes(imgs, mode) ==
    LET w == IF mode = "first" THEN imgs[1].width
             ELSE SeqMin([i \in 1..Len(imgs) |-> imgs[i].width])
        h == IF mode = "first" THEN imgs[1].height
             ELSE SeqMin([i \in 1..Len(imgs) |-> imgs[i].height])
    IN  [out |-> [i \in 1..Len(imgs) |->
                    IF imgs[i].width # w \/ imgs[i].height # h
                    THEN Resize(imgs[i], w, h)
                    ELSE imgs[i]],
         W |-> w, H |-> h]

-----------------------------------------------------------------------------
(* File collection and decoding.                                           *)

\* A string is the sequence of its characters' code points:
\* ".png" is <<46, 112, 110, 103>>.

\* The characters str.strip() removes (those for which str.isspace() holds):
\* U+0009-000D, U+001C-0020, U+0085, U+00A0, U+1680, U+2000-200A, U+2028,
\* U+2029, U+202F, U+205F, U+3000
Whitespace ==
    (9..13) \cup (28..32) \cup {133, 160, 5760} \cup (8192..8202)
    \cup {8232, 8233, 8239, 8287, 12288}

\* The characters of U+0000-00FF that str.lower() changes: A-Z and the
\* Latin-1 capitals, each 32 below its lower-case form
Capitals == (65..90) \cup (192..214) \cup (216..222)

\* str.lower() on each character of U+0000-00FF and of Whitespace (other
\* characters are outside the model)
LowerTable ==
    [c \in (0..255) \cup Whitespace |-> IF c \in Capitals THEN c + 32 ELSE c]

\* str.lower() on one character
LowerChar(c) == LowerTable[c]

\* str.lower()
LowerStr(s) == [i \in 1..Len(s) |-> LowerChar(s[i])]

\* str.lstrip(".")
RECURSIVE LStripDots(_)
LStripDots(s) ==
    IF s # <<>> /\ Head(s) = 46 THEN LStripDots(Tail(s)) ELSE s

\* s.lower().lstrip(".")
Normalise(s) == LStripDots(LowerStr(s))

\* Whether e.strip() is empty
IsBlank(e) == \A i \in 1..Len(e) : e[i] \in Whitespace

\* DEFAULT_EXTS, split on commas
DefaultExts ==
    {
     <<112, 110, 103>>,         \* png
     <<106, 112, 103>>,         \* jpg
     <<106, 112, 101, 103>>,    \* jpeg
     <<119, 101, 98, 112>>,     \* webp
     <<98, 109, 112>>,          \* bmp
     <<103, 105, 102>>,         \* gif
     <<116, 105, 102>>,         \* tif
     <<116, 105, 102, 102>>,    \* tiff
     <<80, 78, 71>>,            \* PNG
     <<74, 80, 71>>,            \* JPG
     <<74, 80, 69, 71>>,        \* JPEG
     <<87, 69, 66, 80>>,        \* WEBP
     <<66, 77, 80>>,            \* BMP
     <<71, 73, 70>>,            \* GIF
     <<84, 73, 70>>,            \* TIF
     <<84, 73, 70, 70>>         \* TIFF
    }

\* Insertion into a list sorted by name, after the entries it does not precede
RECURSIVE InsertByName(_, _)
InsertByName(sorted, e) ==
    IF sorted = <<>> THEN <<e>>
    ELSE IF e.name < Head(sorted).name THEN <<e>> \o sorted
    ELSE <<Head(sorted)>> \o InsertByName(Tail(sorted), e)

\* natsorted(files, key=lambda p: p.name): a stable sort, so equal keys keep their order
SortByName(s) ==
    LET sorted[k \in 0..Len(s)] ==
            IF k = 0 THEN <<>> ELSE InsertByName(sorted[k - 1], s[k])
    IN  sorted[Len(s)]

\* folder.glob("*") lists the folder's own entries, folder.rglob("*") those of
\* its subfolders too
collect_files(entries, exts, recursive) ==
    LET exts_lc == {Normalise(e) : e \in {x \in exts : ~IsBlank(x)}}
        listed(e) == recursive \/ e.depth = 0
        keep(e) == listed(e) /\ e.is_file /\ Normalise(e.suffix) \in exts_lc
    IN  SortByName(SelectSeq(entries, keep))

\* Variant: a file that fails to open is skipped
RECURSIVE load_frames_from_skip(_, _, _)
load_frames_from_skip(fl, i, imgs) ==
    IF i > Len(fl) THEN [ok |-> TRUE, failed |-> 0, imgs |-> imgs]
    ELSE IF ~fl[i].readable THEN load_frames_from_skip(fl, i + 1, imgs)
    ELSE load_frames_from_skip(fl, i + 1, Append(imgs, ConvertRGBA(fl[i].image)))

\* The loop of load_frames: stops at the first file that fails to open
RECURSIVE load_frames_from(_, _, _)
load_frames_from(fl, i, imgs) ==
    IF i > Len(fl) THEN [ok |-> TRUE, failed |-> 0, imgs |-> imgs]
    ELSE IF ~fl[i].readable THEN [ok |-> FALSE, failed |-> i, imgs |-> <<>>]
    ELSE load_frames_from(fl, i + 1, Append(imgs, ConvertRGBA(fl[i].image)))

load_frames(fl) == load_frames_from(fl, 1, <<>>)

-----------------------------------------------------------------------------
(* The steps of main().                                                    *)

Abort(why) ==
    /\ pc' = "abort"
    /\ error' = why

\* main, lines 133-140: the folder check, collect_files and the count check
Collect ==
    /\ pc = "start"
    /\ IF ~folder.exists
       THEN /\ Abort("folder")
            /\ UNCHANGED files
       ELSE LET fl == collect_files(folder.entries, DefaultExts, args.recursive)
            IN  /\ files' = fl
                /\ IF Len(fl) < 2
                   THEN Abort("count")
                   ELSE pc' = "load" /\ UNCHANGED error
    /\ UNCHANGED <<args, folder, frames, loaded, W, H, base, out_img, mask, stripes, locals, disk>>

\* main, line 146: frames = load_frames(files)
Load ==
    /\ pc = "load"
    /\ LET r == load_frames(files)
       IN  IF r.ok
           THEN /\ frames' = r.imgs
                /\ loaded' = r.imgs
                /\ pc' = "unify"
                /\ UNCHANGED error
           ELSE /\ Abort("decode")
                /\ UNCHANGED <<frames, loaded>>
    /\ UNCHANGED <<args, folder, files, W, H, base, out_img, mask, stripes, locals, disk>>

\* main, line 147: frames, W, H = unify_sizes(frames, args.resize)
Unify ==
    /\ pc = "unify"
    /\ LET u == unify_sizes(frames, args.resize)
       IN  /\ frames' = u.out
           /\ W' = u.W
           /\ H' = u.H
    /\ pc' = "interlace"
    /\ UNCHANGED <<args, folder, files, loaded, base, out_img, mask, stripes, locals, disk, error>>

\* main, lines 149-152: base = interlace_vertical(...) or interlace_horizontal(...)
Interlace ==
    /\ pc = "interlace"
    /\ IF args.direction = "vertical"
       THEN /\ base' = interlace_vertical(frames, W, H, args.slice)
            /\ stripes' = interlace_vertical_steps(Len(frames), W, H, args.slice)
            /\ locals' = [locals EXCEPT !.il_slice = interlace_slice(args.slice, W)]
       ELSE /\ base' = interlace_horizontal(frames, W, H, args.slice)
            /\ stripes' = interlace_horizontal_steps(Len(frames), W, H, args.slice)
            /\ locals' = [locals EXCEPT !.il_slice = interlace_slice(args.slice, H)]
    /\ pc' = "post"
    /\ UNCHANGED <<args, folder, files, frames, loaded, W, H, out_img, mask, disk, error>>

\* main, lines 155-159: the optional post-pass
PostPass ==
    /\ pc = "post"
    /\ out_img' = IF args.white_bg THEN composite_on_white(base)
                  ELSE IF args.force_rgb THEN ConvertRGB(base)
                  ELSE base
    /\ pc' = "save_base"
    /\ UNCHANGED <<args, folder, files, frames, loaded, W, H, base, mask, stripes, locals, disk, error>>

\* Variant: a failed save of the base is caught and the mask is still made
after_save_base_anyway(saved, out_mask) ==
    IF out_mask THEN "mask"
    ELSE IF saved THEN "done"
    ELSE "abort"

\* Where main goes after out_img.save(out_base): an exception leaves main
after_save_base(saved, out_mask) ==
    IF ~saved THEN "abort"
    ELSE IF out_mask THEN "mask"
    ELSE "done"

\* main, lines 161-166: the base is saved; the encoder may refuse or the write fail
SaveBase ==
    /\ pc = "save_base"
    /\ \E saved \in BOOLEAN :
        /\ disk' = IF saved THEN [disk EXCEPT !.base = out_img] ELSE disk
        /\ pc' = after_save_base(saved, args.out_mask)
        /\ error' = IF saved THEN error ELSE "save_base"
    /\ UNCHANGED <<args, folder, files, frames, loaded, W, H, base, out_img, mask, stripes, locals>>

\* main, line 167: mask = make_mask(W, H, args.slice, len(frames), args.direction)
MakeMask ==
    /\ pc = "mask"
    /\ mask' = make_mask(W, H, args.slice, Len(frames), args.direction)
    /\ locals' = [locals EXCEPT !.mk_slice = mask_slice(args.slice),
                                !.mk_period = mask_period(args.slice, Len(frames))]
    /\ pc' = "save_mask"
    /\ UNCHANGED <<args, folder, files, frames, loaded, W, H, base, out_img, stripes, disk, error>>

\* main, lines 168-172: the mask is saved
SaveMask ==
    /\ pc = "save_mask"
    /\ \E saved \in BOOLEAN :
        /\ disk' = IF saved THEN [disk EXCEPT !.mask = mask] ELSE disk
        /\ pc' = IF saved THEN "done" ELSE "abort"
        /\ error' = IF saved THEN error ELSE "save_mask"
    /\ UNCHANGED <<args, folder, files, frames, loaded, W, H, base, out_img, mask, stripes, locals>>

-----------------------------------------------------------------------------
(* Inputs.                                                                 *)

Directions == {"vertical", "horizontal"}

ResizeModes == {"first", "min"}

\* The colour of the k-th flat test frame
FlatColour(k) == <<(60 * k + 40) % 256, (90 * k + 10) % 256, (30 * k + 200) % 256>>

\* What file k decodes to: one colour; without alpha for even k, opaque RGBA for odd k
FileImage(k, w, h) ==
    IF k % 2 = 0
    THEN New("RGB", w, h, FlatColour(k))
    ELSE New("RGBA", w, h, FlatColour(k) \o <<255>>)

AlphaCycle == <<255, 0, 128>>

\* A frame whose every pixel tells its frame, its column and its row
Painted(k, w, h) ==
    [mode |-> "RGBA", width |-> w, height |-> h,
     px |-> [p \in Coords(w, h) |->
               <<(60 * k + 7 * p[1] + 3 * p[2]) % 256,
                 (20 * p[1]) % 256,
                 (50 * p[2]) % 256,
                 AlphaCycle[((p[1] + p[2] + k) % 3) + 1]>>]]

EmptyLocals == [il_slice |-> 0, mk_slice |-> 0, mk_period |-> 0]

EmptyDisk == [base |-> NoImage, mask |-> NoImage]

\* Nothing computed yet: main's locals before their assignment
Blank ==
    /\ files = <<>>
    /\ frames = <<>>
    /\ loaded = <<>>
    /\ W = 0
    /\ H = 0
    /\ base = NoImage
    /\ out_img = NoImage
    /\ mask = NoImage
    /\ stripes = <<>>
    /\ locals = EmptyLocals
    /\ disk = EmptyDisk
    /\ error = "none"

-----------------------------------------------------------------------------
(* The whole run: main() on a folder.                                      *)

MaxEntries == 3

\* Size of the image in the folder's own file with this name
MainSize(name) == IF name % 2 = 0 THEN <<2, 1>> ELSE <<1, 2>>

NestedSize == <<2, 2>>

MainSlices == {1, 2}

EntryKinds == {"text", "corrupt", "dir", "nested", "frame"}

\* An entry under the folder: name (its natural-sort key), depth (0: in the folder
\* itself, 1: in a subfolder), suffix, whether it decodes, content
MakeEntry(name, kind) ==
    CASE kind = "text" ->
            [name |-> name, depth |-> 0, is_file |-> TRUE,
             suffix |-> <<46, 116, 120, 116>>,   \* ".txt"
             readable |-> FALSE, image |-> NoImage]
      [] kind = "dir" ->
            [name |-> name, depth |-> 0, is_file |-> FALSE,
             suffix |-> <<46, 112, 110, 103>>,   \* ".png"
             readable |-> FALSE, image |-> NoImage]
      [] kind = "corrupt" ->
            [name |-> name, depth |-> 0, is_file |-> TRUE,
             suffix |-> <<46, 80, 78, 71>>,   \* ".PNG"
             readable |-> FALSE, image |-> NoImage]
      [] kind = "nested" ->
            [name |-> name, depth |-> 1, is_file |-> TRUE,
             suffix |-> <<46, 74, 112, 101, 103>>,   \* ".Jpeg"
             readable |-> TRUE,
             image |-> FileImage(name, NestedSize[1], NestedSize[2])]
      [] kind = "frame" ->
            [name |-> name, depth |-> 0, is_file |-> TRUE,
             suffix |-> IF name % 2 = 0 THEN <<46, 103, 105, 102>>   \* ".gif"
                        ELSE <<46, 112, 110, 103>>,   \* ".png"
             readable |-> TRUE,
             image |-> FileImage(name, MainSize(name)[1], MainSize(name)[2])]

MainArgs ==
    [recursive : BOOLEAN, slice : MainSlices, direction : Directions,
     resize : ResizeModes, out_mask : BOOLEAN, white_bg : BOOLEAN,
     force_rgb : BOOLEAN]

Init ==
    /\ pc = "start"
    /\ args \in MainArgs
    /\ \E n \in 0..MaxEntries :
         \E kinds \in [1..n -> EntryKinds] :
           \E ascending \in BOOLEAN, exists \in BOOLEAN :
             folder = [exists |-> exists,
                       entries |-> IF exists
                                   THEN [i \in 1..n |->
                                           MakeEntry(IF ascending THEN i ELSE n + 1 - i,
                                                     kinds[i])]
                                   ELSE <<>>]
    /\ Blank

Next ==
    \/ Collect
    \/ Load
    \/ Unify
    \/ Interlace
    \/ PostPass
    \/ SaveBase
    \/ MakeMask
    \/ SaveMask

Spec == Init /\ [][Next]_vars

-----------------------------------------------------------------------------
(* The encoder alone: interlacer and mask generator on unified frames.     *)
(* main is entered at line 149 with frames, W, H and args drawn from       *)
(* bounded sets (one frame and slices below 1 and above the axis           *)
(* included); the steps from there on read nothing else.                   *)

InitEncode ==
    /\ pc = "interlace"
    /\ \E direction \in Directions, axis \in 1..MaxAxis, orth \in 1..MaxOrth,
          N \in 1..MaxFrames, seed \in 0..MaxSeed, S \in SliceValues :
         /\ W = IF direction = "vertical" THEN axis ELSE orth
         /\ H = IF direction = "vertical" THEN orth ELSE axis
         /\ frames = [i \in 1..N |-> Painted(seed + i, W, H)]
         /\ loaded = frames
         /\ args = [recursive |-> FALSE, slice |-> S, direction |-> direction, resize |-> "first",
                    out_mask |-> TRUE, white_bg |-> FALSE, force_rgb |-> FALSE]
    /\ folder = [exists |-> TRUE, entries |-> <<>>]
    /\ files = <<>>
    /\ base = NoImage
    /\ out_img = NoImage
    /\ mask = NoImage
    /\ stripes = <<>>
    /\ locals = EmptyLocals
    /\ disk = EmptyDisk
    /\ error = "none"

NextEncode ==
    \/ Interlace
    \/ PostPass
    \/ SaveBase
    \/ MakeMask
    \/ SaveMask

SpecEncode == InitEncode /\ [][NextEncode]_vars

-----------------------------------------------------------------------------
(* The size unifier alone, on decoded frames of any sizes.                 *)

MaxSide == 3

InitUnify ==
    /\ pc = "unify"
    /\ \E N \in 2..MaxFrames :
         \E sizes \in [1..N -> (1..MaxSide) \X (1..MaxSide)] :
           /\ frames = [i \in 1..N |-> ConvertRGBA(FileImage(i, sizes[i][1], sizes[i][2]))]
           /\ loaded = frames
    /\ \E mode \in ResizeModes :
         args = [recursive |-> FALSE, slice |-> 1, direction |-> "vertical", resize |-> mode,
                 out_mask |-> FALSE, white_bg |-> FALSE, force_rgb |-> FALSE]
    /\ folder = [exists |-> TRUE, entries |-> <<>>]
    /\ files = <<>>
    /\ W = 0
    /\ H = 0
    /\ base = NoImage
    /\ out_img = NoImage
    /\ mask = NoImage
    /\ stripes = <<>>
    /\ locals = EmptyLocals
    /\ disk = EmptyDisk
    /\ error = "none"

NextUnify == Unify

SpecUnify == InitUnify /\ [][NextUnify]_vars

-----------------------------------------------------------------------------
(* The compositor alone, on canvases of any content.                       *)

MaxCanvas == 2

CanvasColours == {<<0, 0, 0>>, <<200, 100, 50>>, <<255, 255, 255>>}

CanvasAlphas == {0, 128, 255}

CanvasPixels == {c \o <<a>> : c \in CanvasColours, a \in CanvasAlphas}

InitComposite ==
    /\ pc = "post"
    /\ \E w \in 1..MaxCanvas :
         \E px \in [Coords(w, 1) -> CanvasPixels] :
           /\ base = [mode |-> "RGBA", width |-> w, height |-> 1, px |-> px]
           /\ W = w
           /\ H = 1
    /\ \E wb \in BOOLEAN, rgb \in BOOLEAN :
         args = [recursive |-> FALSE, slice |-> 1, direction |-> "vertical", resize |-> "first",
                 out_mask |-> FALSE, white_bg |-> wb, force_rgb |-> rgb]
    /\ folder = [exists |-> TRUE, entries |-> <<>>]
    /\ files = <<>>
    /\ frames = <<>>
    /\ loaded = <<>>
    /\ out_img = NoImage
    /\ mask = NoImage
    /\ stripes = <<>>
    /\ locals = EmptyLocals
    /\ disk = EmptyDisk
    /\ error = "none"

NextComposite == PostPass

SpecComposite == InitComposite /\ [][NextComposite]_vars

-----------------------------------------------------------------------------
(* Vocabulary of the properties.                                           *)

Vertical == args.direction = "vertical"

\* Length of the axis the stripes divide, and a pixel's coordinate along it
Axis == IF Vertical THEN W ELSE H

Along(p) == IF Vertical THEN p[1] ELSE p[2]

NFrames == Len(frames)

Clamp(v, lo, hi) == IF v < lo THEN lo ELSE IF v > hi THEN hi ELSE v

\* Where stripe i starts and ends along the axis, from the box it cropped
StripeLo(i) == IF Vertical THEN stripes[i].box[1] ELSE stripes[i].box[2]

StripeHi(i) == IF Vertical THEN stripes[i].box[3] ELSE stripes[i].box[4]

StripesOver(c) == {i \in DOMAIN stripes : StripeLo(i) <= c /\ c < StripeHi(i)}

\* The frame the stripe over column (row) c was cropped from
SourceFrame(c) == stripes[CHOOSE i \in StripesOver(c) : TRUE].f_idx

Interlaced == base # NoImage

Masked == mask # NoImage

\* Column (row) m of the mask is transparent on its whole length
MaskTransparentAt(m) ==
    \A p \in DOMAIN mask.px : Along(p) = m => mask.px[p] = <<0, 0, 0, 0>>

MaskOpaqueAt(m) ==
    \A p \in DOMAIN mask.px : Along(p) = m => mask.px[p] = <<0, 0, 0, 255>>

TransparentColumns == {m \in 0..(Axis - 1) : MaskTransparentAt(m)}

-----------------------------------------------------------------------------
(* C1: for N >= 2 frames and slice S >= 1, the canvas has the size (W, H)  *)
(* and, at every (x, y), the pixel of frame floor(x / S) mod N at (x, y)   *)
(* (floor(y / S) mod N for the horizontal direction).                      *)
C1_CanvasPixels ==
    (Interlaced /\ NFrames >= 2 /\ args.slice >= 1) =>
        /\ base.mode = "RGBA"
        /\ base.width = W
        /\ base.height = H
        /\ DOMAIN base.px = Coords(W, H)
        /\ \A p \in Coords(W, H) :
             base.px[p] = frames[((Along(p) \div args.slice) % NFrames) + 1].px[p]

C1_Witness ==
    /\ pc = "post"
    /\ Vertical
    /\ NFrames = 3
    /\ args.slice = 2
    /\ W = 12
    /\ H = 2
    /\ base.px[<<4, 0>>] = frames[3].px[<<4, 0>>]
    /\ base.px[<<6, 1>>] = frames[1].px[<<6, 1>>]
    /\ base.px[<<6, 1>>] # frames[2].px[<<6, 1>>]

-----------------------------------------------------------------------------
(* C9: for W >= 1, N >= 1 and every integer S, the stripes the interlacer  *)
(* crops and pastes are consecutive, pairwise disjoint ranges of the axis  *)
(* whose union is [0, W) ([0, H) for horizontal): each has width           *)
(* s = clamp(S, 1, W) except the last, which has width W mod s when W is   *)
(* not a multiple of s; no crop or paste range leaves the image; every     *)
(* column (row) is written exactly once.                                   *)
C9_StripesPartition ==
    Interlaced =>
        LET s == Clamp(args.slice, 1, Axis)
            n == Len(stripes)
        IN  /\ n >= 1
            /\ StripeLo(1) = 0
            /\ StripeHi(n) = Axis
            /\ \A i \in 1..(n - 1) : StripeHi(i) = StripeLo(i + 1)
            /\ \A i \in 1..(n - 1) : StripeHi(i) - StripeLo(i) = s
            /\ StripeHi(n) - StripeLo(n) = IF Axis % s = 0 THEN s ELSE Axis % s
            /\ \A i \in 1..n :
                 LET b == stripes[i].box
                 IN  /\ 0 <= b[1] /\ b[1] < b[3] /\ b[3] <= W
                     /\ 0 <= b[2] /\ b[2] < b[4] /\ b[4] <= H
                     /\ stripes[i].at = <<b[1], b[2]>>
                     /\ IF Vertical THEN b[2] = 0 /\ b[4] = H
                                    ELSE b[1] = 0 /\ b[3] = W
            /\ \A i, j \in 1..n :
                 i # j => (StripeHi(i) <= StripeLo(j) \/ StripeHi(j) <= StripeLo(i))
            /\ \A c \in 0..(Axis - 1) : Cardinality(StripesOver(c)) = 1

C9_Witness ==
    /\ Interlaced
    /\ ~Vertical
    /\ H = 7
    /\ args.slice = 3
    /\ Len(stripes) = 3
    /\ stripes[3].box = <<0, 6, W, 7>>

-----------------------------------------------------------------------------
(* C2: column x of a vertical mask is transparent on every row exactly     *)
(* when x mod (s * N) < s, with s = max(1, S), and opaque otherwise (rows   *)
(* for horizontal); so every full period inside the image holds s          *)
(* transparent and s * (N - 1) opaque columns.                              *)
C2_MaskPattern ==
    Masked =>
        LET s == IF args.slice < 1 THEN 1 ELSE args.slice
            period == s * NFrames
        IN  /\ mask.mode = "RGBA"
            /\ DOMAIN mask.px = Coords(W, H)
            /\ \A m \in 0..(Axis - 1) :
                 IF m % period < s THEN MaskTransparentAt(m) ELSE MaskOpaqueAt(m)
            /\ \A j \in 0..Axis :
                 (j + 1) * period <= Axis =>
                    LET cols == (j * period)..((j + 1) * period - 1)
                    IN  /\ Cardinality({m \in cols : MaskTransparentAt(m)}) = s
                        /\ Cardinality({m \in cols : MaskOpaqueAt(m)}) = s * (NFrames - 1)

C2_Witness ==
    /\ Masked
    /\ Vertical
    /\ W = 12
    /\ args.slice = 2
    /\ NFrames = 3
    /\ TransparentColumns = {0, 1, 6, 7}

-----------------------------------------------------------------------------
(* C4 as claimed: the transparent columns (rows) of every mask are exactly *)
(* 1/N of the axis length.                                                 *)
C4_TransparentFractionAlways ==
    Masked => NFrames * Cardinality(TransparentColumns) = Axis

(* C4 as amended: with s = max(1, S) and period p = s * N, the mask has     *)
(* s * floor(L / p) + min(s, L mod p) transparent columns (rows) on an axis *)
(* of length L; that is exactly L / N when L is a multiple of p, and       *)
(* otherwise at least L / N (more than L / N when N >= 2).                 *)
C4_TransparentFraction ==
    Masked =>
        LET s == IF args.slice < 1 THEN 1 ELSE args.slice
            p == s * NFrames
            count == Cardinality(TransparentColumns)
        IN  /\ count = s * (Axis \div p) + Min(s, Axis % p)
            /\ (Axis % p = 0) => NFrames * count = Axis
            /\ NFrames * count >= Axis
            /\ (Axis % p # 0 /\ NFrames >= 2) => NFrames * count > Axis

C4_Witness ==
    /\ Masked
    /\ ~Vertical
    /\ H = 12
    /\ args.slice = 2
    /\ NFrames = 3
    /\ Cardinality(TransparentColumns) = 4

-----------------------------------------------------------------------------
(* C3: with interlacer and mask generator called on the same               *)
(* (W, H, S, N, direction), for every shift of the mask by k stripe widths *)
(* (k in 0..N-1) along the axis, every canvas column (row) under a         *)
(* transparent mask column was copied from frame k; at shift 0 the         *)
(* transparent columns are exactly those of the first stripe of each       *)
(* period, all copied from frame 0.                                        *)
C3_ShiftRevealsOneFrame ==
    (Interlaced /\ Masked) =>
        /\ \A unit \in {locals.il_slice, locals.mk_slice} :
             \A k \in 0..(NFrames - 1) :
               \A c \in 0..(Axis - 1) :
                 LET m == c - k * unit
                 IN  (m >= 0 /\ MaskTransparentAt(m)) =>
                        /\ SourceFrame(c) = k
                        /\ \A p \in Coords(W, H) :
                             Along(p) = c => base.px[p] = frames[k + 1].px[p]
        /\ TransparentColumns =
             {c \in 0..(Axis - 1) :
                \E i \in StripesOver(c) : (i - 1) % NFrames = 0}
        /\ \A c \in TransparentColumns : SourceFrame(c) = 0

C3_Witness ==
    /\ Interlaced
    /\ Masked
    /\ Vertical
    /\ W = 12
    /\ args.slice = 2
    /\ NFrames = 3
    /\ MaskTransparentAt(6)
    /\ SourceFrame(6 + 2 * 2) = 2
    /\ SourceFrame(6 + 1 * 2) = 1
    /\ SourceFrame(6) = 0

-----------------------------------------------------------------------------
(* C10 as claimed: both generators clamp S to [1, W] (vertical) or [1, H]  *)
(* (horizontal) and use that slice size and that slice size times N as     *)
(* period.                                                                 *)
C10_SameClampedSlice ==
    (Interlaced /\ Masked) =>
        LET s == Clamp(args.slice, 1, Axis)
        IN  /\ locals.il_slice = s
            /\ locals.mk_slice = s
            /\ locals.mk_period = s * NFrames

(* C10 as amended: the interlacer's slice size is S clamped to [1, W]      *)
(* (resp. [1, H]); make_mask's is max(1, S), with no upper clamp, and its  *)
(* period is that times N; the two agree exactly when S <= W (resp. H).    *)
C10_SliceSizes ==
    (Interlaced /\ Masked) =>
        LET s == Clamp(args.slice, 1, Axis)
            ms == IF args.slice < 1 THEN 1 ELSE args.slice
        IN  /\ locals.il_slice = s
            /\ StripeHi(1) - StripeLo(1) = s
            /\ locals.mk_slice = ms
            /\ locals.mk_period = ms * NFrames
            /\ (locals.il_slice = locals.mk_slice) <=> (args.slice <= Axis)
            /\ (locals.il_slice * NFrames = locals.mk_period) <=> (args.slice <= Axis)

C10_Witness ==
    /\ Interlaced
    /\ Masked
    /\ Vertical
    /\ W = 4
    /\ args.slice = 6
    /\ NFrames = 3
    /\ locals.il_slice = 4
    /\ locals.mk_slice = 6
    /\ locals.mk_period = 18

-----------------------------------------------------------------------------
(* C5: unify_sizes returns as many frames as it was given, all of width W  *)
(* and height H, with that (W, H): under "first" the size of frame 0,      *)
(* under "min" the least width and the least height over all frames, each  *)
(* on its own; a frame already of that size is returned unchanged, every   *)
(* other frame is resized to exactly (W, H).                               *)
C5_UnifiedSizes ==
    (pc = "interlace") =>
        /\ Len(frames) = Len(loaded)
        /\ \A i \in DOMAIN frames :
             /\ frames[i].width = W
             /\ frames[i].height = H
             /\ DOMAIN frames[i].px = Coords(W, H)
             /\ frames[i].mode = "RGBA"
        /\ (args.resize = "first") =>
             /\ W = loaded[1].width
             /\ H = loaded[1].height
        /\ (args.resize = "min") =>
             /\ \A i \in DOMAIN loaded : W <= loaded[i].width /\ H <= loaded[i].height
             /\ \E i \in DOMAIN loaded : W = loaded[i].width
             /\ \E i \in DOMAIN loaded : H = loaded[i].height
        /\ \A i \in DOMAIN loaded :
             IF loaded[i].width = W /\ loaded[i].height = H
             THEN frames[i] = loaded[i]
             ELSE frames[i] # loaded[i]

C5_Witness ==
    /\ pc = "interlace"
    /\ args.resize = "min"
    /\ Len(loaded) = 2
    /\ loaded[1].width = 1 /\ loaded[1].height = 2
    /\ loaded[2].width = 2 /\ loaded[2].height = 1
    /\ W = 1
    /\ H = 1
    /\ frames[1].width = 1 /\ frames[1].height = 1
    /\ frames[2].width = 1 /\ frames[2].height = 1

-----------------------------------------------------------------------------
(* C8: composite_on_white returns an image without alpha (fully opaque) of *)
(* the same size, in which every pixel whose input alpha is 0 is           *)
(* (255, 255, 255) and every pixel whose input alpha is 255 keeps its RGB. *)
C8_CompositeOnWhite ==
    (pc = "save_base" /\ args.white_bg) =>
        /\ out_img.mode = "RGB"
        /\ out_img.width = base.width
        /\ out_img.height = base.height
        /\ DOMAIN out_img.px = DOMAIN base.px
        /\ \A p \in DOMAIN base.px :
             /\ Len(out_img.px[p]) = 3
             /\ base.px[p][4] = 0 => out_img.px[p] = <<255, 255, 255>>
             /\ base.px[p][4] = 255 =>
                  out_img.px[p] = <<base.px[p][1], base.px[p][2], base.px[p][3]>>

C8_Witness ==
    /\ pc = "save_base"
    /\ args.white_bg
    /\ base.width = 2
    /\ base.px[<<0, 0>>] = <<200, 100, 50, 0>>
    /\ base.px[<<1, 0>>] = <<200, 100, 50, 255>>
    /\ out_img.px[<<0, 0>>] = <<255, 255, 255>>
    /\ out_img.px[<<1, 0>>] = <<200, 100, 50>>

-----------------------------------------------------------------------------
(* The run's inputs, read off the folder.                                  *)

\* The entries the run takes as frame files
FrameEntries ==
    {i \in DOMAIN folder.entries :
        /\ folder.entries[i].is_file
        /\ folder.entries[i].depth = 0 \/ args.recursive
        /\ folder.entries[i].suffix \in
             {<<46, 112, 110, 103>>, <<46, 80, 78, 71>>,   \* ".png", ".PNG"
              <<46, 103, 105, 102>>, <<46, 74, 112, 101, 103>>}}   \* ".gif", ".Jpeg"

TooFewFrames == Cardinality(FrameEntries) < 2

SomeFrameUndecodable == \E i \in FrameEntries : ~folder.entries[i].readable

Ended == pc \in {"done", "abort"}

BaseWritten == disk.base # NoImage

MaskWritten == disk.mask # NoImage

-----------------------------------------------------------------------------
(* C6: when fewer than 2 frame files are found, or any frame fails to      *)
(* decode, the run aborts with an error before any output file exists and  *)
(* before any interlacing; no frame list is ever built from the frames     *)
(* that did decode.                                                        *)
C6_AbortBeforeOutput ==
    (TooFewFrames \/ SomeFrameUndecodable) =>
        /\ pc \in {"start", "load", "abort"}
        /\ pc = "abort" => error \in {"folder", "count", "decode"}
        /\ pc # "abort" => error = "none" /\ ENABLED Next
        /\ (pc = "abort" /\ ~TooFewFrames) => error = "decode"
        /\ disk = EmptyDisk
        /\ frames = <<>>
        /\ loaded = <<>>
        /\ stripes = <<>>
        /\ base = NoImage
        /\ out_img = NoImage
        /\ mask = NoImage

C6_Witness ==
    /\ pc = "abort"
    /\ error = "decode"
    /\ Len(files) = 3
    /\ Cardinality({i \in DOMAIN files : files[i].readable}) = 2
    /\ ~files[2].readable
    /\ frames = <<>>
    /\ disk = EmptyDisk

-----------------------------------------------------------------------------
(* C7 as claimed: the base is written only after the interlace pass, and   *)
(* the mask is generated and written independently of the base: a run in   *)
(* which a mask was requested and writing the base failed still generates  *)
(* the mask and, unless writing the mask fails too, writes it.             *)
C7_MaskIndependentOfBase ==
    /\ BaseWritten => Interlaced
    /\ (Ended /\ args.out_mask /\ error = "save_base") => Masked
    /\ (Ended /\ args.out_mask /\ Interlaced /\ error # "save_mask") => MaskWritten

(* C7 as amended: the base is written only after the whole interlace pass  *)
(* has succeeded and without the mask having been generated; the mask is   *)
(* generated and written only after the base has been written, so a        *)
(* failure while writing the base ends the run with no mask generated or   *)
(* written.                                                                *)
C7_BaseThenMask ==
    /\ BaseWritten => (Interlaced /\ disk.base = out_img /\ Len(stripes) >= 1)
    /\ pc = "mask" => (BaseWritten /\ ~Masked)
    /\ (pc = "done" /\ ~args.out_mask) => (BaseWritten /\ ~Masked)
    /\ Masked => BaseWritten
    /\ MaskWritten => (BaseWritten /\ disk.mask = mask)
    /\ error = "save_base" =>
         (pc = "abort" /\ Interlaced /\ ~Masked /\ ~MaskWritten)
    /\ (pc = "done" /\ args.out_mask) => (BaseWritten /\ MaskWritten)

C7_Witness ==
    /\ pc = "abort"
    /\ error = "save_base"
    /\ args.out_mask
    /\ Interlaced
    /\ out_img # NoImage
    /\ ~Masked
    /\ ~MaskWritten

=============================================================================
